---- MODULE Spec2Model ----
(***************************************************************************)
(* A model of the cppunits library: the compile-time quantity type Unit of *)
(* unit.hpp (dimension vector, scale ratio, stored value) with its         *)
(* operators, and the rational helpers abs / gcd / lcm of gcd.hpp.         *)
(*                                                                         *)
(* A quantity is a record [dim, num, den, value]: dim, num and den are the *)
(* template arguments of its type, value is the member value_.  The        *)
(* storage type modelled is the integral one (namespace i, int64_t).       *)
(* What the compiler decides (overload resolution, template argument       *)
(* deduction, well-formedness of a member's body) is modelled by the       *)
(* status of the operation's result: "ok" or "rejected".                   *)
(***************************************************************************)
EXTENDS Integers, Sequences, FiniteSets, TLC

VARIABLES a, res, gm, gn, ub, out

vars == <<a, res, gm, gn, ub, out>>

(***************************************************************************)
(* Bounds of the model.                                                    *)
(***************************************************************************)
\* Stored values range over -MaxVal..MaxVal (plus the demo's 100 and 100000).
MaxVal == 2

\* Width, in bits, of the signed operand type of gcd and lcm.
IntBits == 4

(***************************************************************************)
(* Integer arithmetic of the storage type.                                 *)
(***************************************************************************)
Sign(x) == IF x < 0 THEN -1 ELSE 1

Magnitude(x) == IF x < 0 THEN -x ELSE x

\* C++ integer division truncates toward zero (y # 0).
TruncDiv(x, y) == Sign(x) * Sign(y) * (Magnitude(x) \div Magnitude(y))

\* C++ remainder: x - (x / y) * y, the sign follows the dividend (y # 0).
TruncRem(x, y) == x - TruncDiv(x, y) * y

(***************************************************************************)
(* std::ratio as unit.hpp uses it: ratio<N, D>::num and ::den are N and D  *)
(* divided by their greatest common divisor; ratio_divide<R1, R2> is       *)
(* ratio<R1::num * R2::den, R1::den * R2::num>.  Num and Denom are size_t: *)
(* positive.                                                               *)
(***************************************************************************)
RECURSIVE RatioGcd(_, _)
RatioGcd(x, y) == IF y = 0 THEN x ELSE RatioGcd(y, x % y)

RatioNum(n, d) == n \div RatioGcd(n, d)

RatioDen(n, d) == d \div RatioGcd(n, d)

ratio(n, d) == [num |-> RatioNum(n, d), den |-> RatioDen(n, d)]

ratio_divide(r1, r2) == ratio(r1.num * r2.den, r1.den * r2.num)

(***************************************************************************)
(* Dimension vectors.                                                      *)
(***************************************************************************)
Dim(t, d, l, k, r, am, m) ==
    [Time |-> t, Distance |-> d, Luminance |-> l, Temperature |-> k,
     Radians |-> r, Amperes |-> am, Mass |-> m]

Dimensionless == Dim(0, 0, 0, 0, 0, 0, 0)
Second  == Dim(1, 0, 0, 0, 0, 0, 0)
Meter   == Dim(0, 1, 0, 0, 0, 0, 0)
Candela == Dim(0, 0, 1, 0, 0, 0, 0)
Kelvin  == Dim(0, 0, 0, 1, 0, 0, 0)
Radian  == Dim(0, 0, 0, 0, 1, 0, 0)
Ampere  == Dim(0, 0, 0, 0, 0, 1, 0)
Gram    == Dim(0, 0, 0, 0, 0, 0, 1)

\* decltype(meter * sec) and decltype(meter * sec * kg) of the demo.
MeterSecond     == Dim(1, 1, 0, 0, 0, 0, 0)
MeterSecondGram == Dim(1, 1, 0, 0, 0, 0, 1)

\* MulDim without the Mass exponent of the right operand.
MulDimMassDropped(x, y) ==
    Dim(y.Time + x.Time, y.Distance + x.Distance, y.Luminance + x.Luminance,
        y.Temperature + x.Temperature, y.Radians + x.Radians,
        y.Amperes + x.Amperes, x.Mass)

\* The dimension of the result type of operator*(const Unit<...>&).
MulDim(x, y) ==
    Dim(y.Time + x.Time, y.Distance + x.Distance, y.Luminance + x.Luminance,
        y.Temperature + x.Temperature, y.Radians + x.Radians,
        y.Amperes + x.Amperes, y.Mass + x.Mass)

\* DivDim with every exponent subtracted.
DivDimAllSubtract(x, y) ==
    Dim(x.Time - y.Time, x.Distance - y.Distance, x.Luminance - y.Luminance,
        x.Temperature - y.Temperature, x.Radians - y.Radians,
        x.Amperes - y.Amperes, x.Mass - y.Mass)

\* The dimension of the result type of operator/(const Unit<...>&).
DivDim(x, y) ==
    Dim(x.Time - y.Time, x.Distance - y.Distance, x.Luminance + y.Luminance,
        x.Temperature + y.Temperature, x.Radians + y.Radians,
        x.Amperes + y.Amperes, x.Mass + y.Mass)

(***************************************************************************)
(* Quantities.                                                             *)
(***************************************************************************)
Unit(dim, num, den, value) ==
    [dim |-> dim, num |-> num, den |-> den, value |-> value]

\* No quantity: the operation produced none.
NoUnit == Unit(Dimensionless, 0, 0, 0)

\* The type of a quantity: its template arguments.
TypeOf(q) == [dim |-> q.dim, num |-> q.num, den |-> q.den]

\* using scale = std::ratio<Num, Denom>
scale(q) == ratio(q.num, q.den)

\* using units<Num2, Den2> = Unit<ValueType, Time, ..., Mass, Num2, Den2>:
\* the type with q's own dimension and the given ratio.
units(q, Num2, Den2) == [dim |-> q.dim, num |-> Num2, den |-> Den2]

GetValue(q) == q.value

(***************************************************************************)
(* The conversion operator, operator units<Num2, Den2>() const.            *)
(***************************************************************************)
\* using r = units<Num2, Den2>::scale;  using s = std::ratio_divide<r, scale>;
ConversionRatio(q, Num2, Den2) == ratio_divide(ratio(Num2, Den2), scale(q))

\* return units<Num2, Den2>(s::num * value_ / s::den);
Convert(q, Num2, Den2) ==
    LET s == ConversionRatio(q, Num2, Den2)
    IN  Unit(q.dim, Num2, Den2, TruncDiv(s.num * q.value, s.den))

(***************************************************************************)
(* What the compiler accepts.                                              *)
(***************************************************************************)
\* Deduction of Num2, Denom2 for a parameter const units<Num2, Denom2>& of a
\* member template of x from an argument y: no conversion is considered, so
\* it succeeds exactly when some units<Num2, Denom2> of x is y's type.
Deducible(x, y) == units(x, y.num, y.den) = TypeOf(y)

\* Convertible, were every quantity taken for the parameter.
ConvertibleAlways(y, x) == TRUE

\* An argument y for a parameter const Unit& of x's type: y is of that type,
\* or y's conversion operator template yields it (units<Num2, Den2> of y with
\* Num2, Den2 deduced from x's type).  The converting constructor
\* Unit(ValueType) takes no quantity.
Convertible(y, x) ==
    \/ TypeOf(y) = TypeOf(x)
    \/ units(y, x.num, x.den) = TypeOf(x)

\* Passed, were the stored value taken over as it is.
PassedUnconverted(y, x) == Unit(x.dim, x.num, x.den, y.value)

\* The object the parameter const Unit& other of x binds to when y is passed:
\* y itself, or the temporary its conversion operator returns.
Passed(y, x) == IF TypeOf(y) = TypeOf(x) THEN y ELSE Convert(y, x.num, x.den)

\* operator+= and operator-= are declared const.
CompoundAddIsConst == TRUE

\* In a const member function *this is const: the assignment to value_ and
\* the return of *this as Unit& are ill-formed, so a use of the member (its
\* instantiation) is rejected.
BodyWellFormed(isConst) == ~isConst

(***************************************************************************)
(* Comparison: the two sides that operator==, operator< and operator>      *)
(* compare, with s = ratio_divide<scale, other scale>.                     *)
(***************************************************************************)
\* CompareLeft with s::den in the place of s::num.
CompareLeftSwapped(x, y) == x.value * ratio_divide(scale(x), scale(y)).den

\* value_ * s::num
CompareLeft(x, y) == x.value * ratio_divide(scale(x), scale(y)).num

\* other.GetValue() * s::den
CompareRight(x, y) == GetValue(y) * ratio_divide(scale(x), scale(y)).den

OpEq(x, y) == CompareLeft(x, y) = CompareRight(x, y)
OpNe(x, y) == ~OpEq(x, y)
OpLt(x, y) == CompareLeft(x, y) < CompareRight(x, y)
OpGt(x, y) == CompareLeft(x, y) > CompareRight(x, y)
OpGe(x, y) == ~OpLt(x, y)
OpLe(x, y) == ~OpGt(x, y)

(***************************************************************************)
(* The operand universe.                                                   *)
(***************************************************************************)
\* Every catalog base dimension, the dimensionless one and the demo's products.
AllDims ==
    {Dimensionless, Second, Meter, Candela, Kelvin, Radian, Ampere, Gram,
     MeterSecond, MeterSecondGram}

CoreDims == {Meter, Gram, MeterSecondGram}

\* Base and Kilo of the catalog.
CoreScales == {<<1, 1>>, <<1000, 1>>}

\* The demo's 5/7 and 2/3, and an unreduced 2/4.
AllScales == CoreScales \cup {<<5, 7>>, <<2, 3>>, <<2, 4>>}

CoreValues == {-1, 2}

AllValues == -MaxVal .. MaxVal

\* The quantities of the demo's cross-scale checks: meter(100), sec(1), kg(1),
\* g(1000), meter * sec, Unit<int64_t, 1, 1, 0, 0, 0, 0, 1, 1000, 1>(100),
\* and meter * sec * g.
DemoOperands ==
    {Unit(Meter, 1, 1, 100), Unit(Second, 1, 1, 1), Unit(Gram, 1000, 1, 1),
     Unit(Gram, 1, 1, 1000), Unit(MeterSecond, 1, 1, 100),
     Unit(MeterSecondGram, 1000, 1, 100), Unit(MeterSecondGram, 1, 1, 100000)}

Operands ==
    {Unit(d, sc[1], sc[2], v) : d \in CoreDims, sc \in AllScales, v \in AllValues}
    \cup {Unit(d, sc[1], sc[2], v) : d \in AllDims, sc \in CoreScales, v \in CoreValues}
    \cup DemoOperands

\* Scalar constants for operator*(T), operator/(T), operator*=, operator/=.
Scalars == {-1, 0, 2, 3}

\* What a division by zero may leave in the result, when it does not trap.
UndefinedValues == -MaxVal .. MaxVal

\* The largest integer the model's arithmetic holds; products are kept below it.
ModelIntMax == 2^30 + (2^30 - 1)

(***************************************************************************)
(* gcd.hpp: abs, gcd and lcm over a signed integer type T of IntBits bits. *)
(* An arithmetic result the type cannot hold is undefined behaviour: under *)
(* "wrap" it is reduced modulo 2^IntBits, under "trap" the evaluation      *)
(* stops without a value (a trapping build, or a constant expression that  *)
(* the compiler refuses).  A value is [ok |-> TRUE, val |-> v], a stopped   *)
(* evaluation is Stopped.                                                  *)
(***************************************************************************)
MinInt == -(2^(IntBits - 1))

MaxInt == 2^(IntBits - 1) - 1

IntRange == MinInt .. MaxInt

Overflows == {"wrap", "trap"}

Wrap(x) == ((x - MinInt) % 2^IntBits) + MinInt

Value(v) == [ok |-> TRUE, val |-> v]

Stopped == [ok |-> FALSE, val |-> 0]

\* The result of an arithmetic operation whose mathematical value is x.
Arith(x, mode) ==
    IF x \in IntRange THEN Value(x)
    ELSE IF mode = "wrap" THEN Value(Wrap(x)) ELSE Stopped

\* abs without the negation.
absNoNegation(i, mode) == Value(i)

\* return i < T(0) ? -i : i;
abs(i, mode) == IF i < 0 THEN Arith(-i, mode) ELSE Value(i)

\* return n == 0 ? abs(m) : gcd(n, abs(m) % abs(n));
RECURSIVE gcd(_, _, _)
gcd(m, n, mode) ==
    IF n = 0 THEN abs(m, mode)
    ELSE LET am == abs(m, mode)
             an == abs(n, mode)
         IN  IF ~am.ok \/ ~an.ok THEN Stopped
             ELSE gcd(n, TruncRem(am.val, an.val), mode)

\* return m * n == 0 ? 0 : (abs(m) / gcd(m,n)) * abs(n);
lcm(m, n, mode) ==
    LET p == Arith(m * n, mode)
    IN  IF ~p.ok THEN Stopped
        ELSE IF p.val = 0 THEN Value(0)
        ELSE LET am == abs(m, mode)
                 g  == gcd(m, n, mode)
                 an == abs(n, mode)
             IN  IF ~am.ok \/ ~g.ok \/ ~an.ok THEN Stopped
                 ELSE Arith(TruncDiv(am.val, g.val) * an.val, mode)

\* The record of the last call: op, whether it returned, the value returned,
\* and for "reduce" the value that was reduced.
Call(op, r, prev) == [op |-> op, ok |-> r.ok, val |-> r.val, prev |-> prev]

NoCall == Call("none", Value(0), 0)

(***************************************************************************)
(* The record of the last operation: op, the compiler's or the run's       *)
(* status, the left operand x as it was before, the right operand y, the   *)
(* scalar c, the quantity q returned, the truth value flag returned, and   *)
(* ref: whether the operator returned a reference to the left operand      *)
(* ("lhs") or a new quantity ("new").                                      *)
(***************************************************************************)
Result(op, status, x, y, c, q, flag, ref) ==
    [op |-> op, status |-> status, x |-> x, y |-> y, c |-> c, q |-> q,
     flag |-> flag, ref |-> ref]

NoResult == Result("none", "none", NoUnit, NoUnit, 0, NoUnit, FALSE, "none")

Rejected(op, x, y) == Result(op, "rejected", x, y, 0, NoUnit, FALSE, "none")

Returned(op, x, y, c, q) == Result(op, "ok", x, y, c, q, FALSE, "new")

Compared(op, x, y, flag) == Result(op, "ok", x, y, 0, NoUnit, flag, "none")

\* A division by zero in the integral storage type is undefined: the run
\* traps, or goes on with some value.
Trapped(op, x, y, c) == Result(op, "trap", x, y, c, NoUnit, FALSE, "none")

(***************************************************************************)
(* The operators of Unit on the quantity a.  An operator is applied when   *)
(* no result of an earlier one is pending; a result is a temporary, which  *)
(* Discard ends.                                                           *)
(***************************************************************************)
Idle == res.op = "none"

\* constexpr Unit operator+(const Unit& other) const
Add ==
    /\ Idle
    /\ \E b \in Operands :
         res' = IF Convertible(b, a)
                THEN Returned("add", a, b, 0,
                       Unit(a.dim, a.num, a.den, a.value + Passed(b, a).value))
                ELSE Rejected("add", a, b)
    /\ UNCHANGED <<a, gm, gn, ub, out>>

\* constexpr Unit operator-(const Unit& other) const
Sub ==
    /\ Idle
    /\ \E b \in Operands :
         res' = IF Convertible(b, a)
                THEN Returned("sub", a, b, 0,
                       Unit(a.dim, a.num, a.den, a.value - Passed(b, a).value))
                ELSE Rejected("sub", a, b)
    /\ UNCHANGED <<a, gm, gn, ub, out>>

\* bool operator==(const units<Num2, Denom2>& other) const noexcept
Eq ==
    /\ Idle
    /\ \E b \in Operands :
         res' = IF Deducible(a, b) THEN Compared("eq", a, b, OpEq(a, b))
                ELSE Rejected("eq", a, b)
    /\ UNCHANGED <<a, gm, gn, ub, out>>

\* bool operator!=(const units<Num2, Denom2>& other) const noexcept
Ne ==
    /\ Idle
    /\ \E b \in Operands :
         res' = IF Deducible(a, b) THEN Compared("ne", a, b, OpNe(a, b))
                ELSE Rejected("ne", a, b)
    /\ UNCHANGED <<a, gm, gn, ub, out>>

\* bool operator<(const units<Num2, Denom2>& other) const noexcept
Lt ==
    /\ Idle
    /\ \E b \in Operands :
         res' = IF Deducible(a, b) THEN Compared("lt", a, b, OpLt(a, b))
                ELSE Rejected("lt", a, b)
    /\ UNCHANGED <<a, gm, gn, ub, out>>

\* bool operator>(const units<Num2, Denom2>& other) const noexcept
Gt ==
    /\ Idle
    /\ \E b \in Operands :
         res' = IF Deducible(a, b) THEN Compared("gt", a, b, OpGt(a, b))
                ELSE Rejected("gt", a, b)
    /\ UNCHANGED <<a, gm, gn, ub, out>>

\* bool operator>=(const units<Num2, Denom2>& other) const noexcept
Ge ==
    /\ Idle
    /\ \E b \in Operands :
         res' = IF Deducible(a, b) THEN Compared("ge", a, b, OpGe(a, b))
                ELSE Rejected("ge", a, b)
    /\ UNCHANGED <<a, gm, gn, ub, out>>

\* bool operator<=(const units<Num2, Denom2>& other) const noexcept
Le ==
    /\ Idle
    /\ \E b \in Operands :
         res' = IF Deducible(a, b) THEN Compared("le", a, b, OpLe(a, b))
                ELSE Rejected("le", a, b)
    /\ UNCHANGED <<a, gm, gn, ub, out>>

\* operator*(const Unit<ValueType, S, M, C, K, Rad, A, KG, Num2, Denom2>&):
\* every quantity of the same storage type is accepted.
Mul ==
    /\ Idle
    /\ \E b \in Operands :
         /\ Magnitude(GetValue(b)) <= ModelIntMax \div (Magnitude(a.value) + 1)
         /\ res' = Returned("mul", a, b, 0,
                  Unit(MulDim(a.dim, b.dim),
                       RatioNum(a.num * b.num, a.den * b.den),
                       RatioDen(a.num * b.num, a.den * b.den),
                       a.value * GetValue(b)))
    /\ UNCHANGED <<a, gm, gn, ub, out>>

\* operator/(const Unit<ValueType, S, M, C, K, Rad, A, KG, Num2, Denom2>&)
Div ==
    /\ Idle
    /\ \E b \in Operands :
         IF GetValue(b) # 0
         THEN res' = Returned("div", a, b, 0,
                       Unit(DivDim(a.dim, b.dim),
                            RatioNum(a.num * b.den, a.den * b.num),
                            RatioDen(a.num * b.den, a.den * b.num),
                            TruncDiv(a.value, GetValue(b))))
         ELSE \/ res' = Trapped("div", a, b, 0)
              \/ \E u \in UndefinedValues :
                   res' = Returned("div", a, b, 0,
                            Unit(DivDim(a.dim, b.dim),
                                 RatioNum(a.num * b.den, a.den * b.num),
                                 RatioDen(a.num * b.den, a.den * b.num), u))
    /\ UNCHANGED <<a, gm, gn, ub, out>>

\* constexpr Unit operator*(T c)
MulScalar ==
    /\ Idle
    /\ \E c \in Scalars :
         res' = Returned("mulScalar", a, NoUnit, c,
                  Unit(a.dim, a.num, a.den, a.value * c))
    /\ UNCHANGED <<a, gm, gn, ub, out>>

\* constexpr Unit operator/(T c)
DivScalar ==
    /\ Idle
    /\ \E c \in Scalars :
         IF c # 0
         THEN res' = Returned("divScalar", a, NoUnit, c,
                       Unit(a.dim, a.num, a.den, TruncDiv(a.value, c)))
         ELSE \/ res' = Trapped("divScalar", a, NoUnit, c)
              \/ \E u \in UndefinedValues :
                   res' = Returned("divScalar", a, NoUnit, c,
                            Unit(a.dim, a.num, a.den, u))
    /\ UNCHANGED <<a, gm, gn, ub, out>>

\* constexpr Unit& operator*=(T c): value_ *= c; return *this;
\* (the stored value is kept within the model's value range)
MulAssign ==
    /\ Idle
    /\ \E c \in Scalars :
         /\ Magnitude(a.value * c) <= MaxVal
         /\ a' = [a EXCEPT !.value = a.value * c]
         /\ res' = Result("mulAssign", "ok", a, NoUnit, c, a', FALSE, "lhs")
    /\ UNCHANGED <<gm, gn, ub, out>>

\* constexpr Unit& operator/=(T c): value_ /= c; return *this;
DivAssign ==
    /\ Idle
    /\ \E c \in Scalars :
         IF c # 0
         THEN /\ a' = [a EXCEPT !.value = TruncDiv(a.value, c)]
              /\ res' = Result("divAssign", "ok", a, NoUnit, c, a', FALSE, "lhs")
         ELSE \/ /\ a' = a
                 /\ res' = Trapped("divAssign", a, NoUnit, c)
              \/ \E u \in UndefinedValues :
                   /\ a' = [a EXCEPT !.value = u]
                   /\ res' = Result("divAssign", "ok", a, NoUnit, c, a', FALSE, "lhs")
    /\ UNCHANGED <<gm, gn, ub, out>>

\* constexpr Unit& operator+=(const Unit& other) const
AddAssign ==
    /\ Idle
    /\ \E b \in Operands :
         IF Convertible(b, a) /\ BodyWellFormed(CompoundAddIsConst)
         THEN /\ a' = [a EXCEPT !.value = a.value + Passed(b, a).value]
              /\ res' = Result("addAssign", "ok", a, b, 0, a', FALSE, "lhs")
         ELSE /\ a' = a
              /\ res' = Rejected("addAssign", a, b)
    /\ UNCHANGED <<gm, gn, ub, out>>

\* constexpr Unit& operator-=(const Unit& other) const
SubAssign ==
    /\ Idle
    /\ \E b \in Operands :
         IF Convertible(b, a) /\ BodyWellFormed(CompoundAddIsConst)
         THEN /\ a' = [a EXCEPT !.value = a.value - Passed(b, a).value]
              /\ res' = Result("subAssign", "ok", a, b, 0, a', FALSE, "lhs")
         ELSE /\ a' = a
              /\ res' = Rejected("subAssign", a, b)
    /\ UNCHANGED <<gm, gn, ub, out>>

\* The implicit conversion of a to units<Num2, Den2>; to its own type a
\* quantity is copied, no conversion function is called.
ConvertTo ==
    /\ Idle
    /\ \E sc \in AllScales :
         res' = Returned("convert", a, NoUnit, 0,
                  IF units(a, sc[1], sc[2]) = TypeOf(a) THEN a
                  ELSE Convert(a, sc[1], sc[2]))
    /\ UNCHANGED <<a, gm, gn, ub, out>>

\* The converted quantity converted back to the type of the original: x is
\* the original, y the converted quantity.
ConvertBack ==
    /\ res.op = "convert"
    /\ res.status = "ok"
    /\ res' = Returned("convertBack", res.x, res.q, 0,
                IF units(res.q, res.x.num, res.x.den) = TypeOf(res.q) THEN res.q
                ELSE Convert(res.q, res.x.num, res.x.den))
    /\ UNCHANGED <<a, gm, gn, ub, out>>

\* The end of the full expression: the temporary result goes away, the
\* quantity a stays as the operation left it.
Discard ==
    /\ ~Idle
    /\ res' = NoResult
    /\ UNCHANGED <<a, gm, gn, ub, out>>

Init ==
    /\ a \in Operands
    /\ res = NoResult
    /\ gm = 0
    /\ gn = 0
    /\ ub = "wrap"
    /\ out = NoCall

Next ==
    \/ Add \/ Sub
    \/ Eq \/ Ne \/ Lt \/ Gt \/ Ge \/ Le
    \/ Mul \/ Div
    \/ MulScalar \/ DivScalar \/ MulAssign \/ DivAssign
    \/ AddAssign \/ SubAssign
    \/ ConvertTo \/ ConvertBack
    \/ Discard

Spec == Init /\ [][Next]_vars

(***************************************************************************)
(* The rational helpers on the operands gm, gn.                            *)
(***************************************************************************)
\* gcd(m, n)
Gcd ==
    /\ out' = Call("gcd", gcd(gm, gn, ub), 0)
    /\ UNCHANGED <<a, res, gm, gn, ub>>

\* gcd(gcd(m, n), 0): the result of gcd reduced once more.
Reduce ==
    /\ out.op = "gcd"
    /\ out.ok
    /\ out' = Call("reduce", gcd(out.val, 0, ub), out.val)
    /\ UNCHANGED <<a, res, gm, gn, ub>>

\* lcm(m, n)
Lcm ==
    /\ out' = Call("lcm", lcm(gm, gn, ub), 0)
    /\ UNCHANGED <<a, res, gm, gn, ub>>

InitRational ==
    /\ a = Unit(Dimensionless, 1, 1, 0)
    /\ res = NoResult
    /\ gm \in IntRange
    /\ gn \in IntRange
    /\ ub \in Overflows
    /\ out = NoCall

NextRational == Gcd \/ Reduce \/ Lcm

SpecRational == InitRational /\ [][NextRational]_vars

(***************************************************************************)
(* Properties.  The quantity properties are stated of Spec, the rational   *)
(* ones of SpecRational.  In a state with res.op set, res.x and res.y are  *)
(* the operands and res.q, res.flag what the operator returned.            *)
(***************************************************************************)
Comparisons == {"eq", "ne", "lt", "gt", "le", "ge"}

\* The relation a comparison operator stands for, on two integers.
Holds(op, l, r) ==
    CASE op = "eq" -> l = r
      [] op = "ne" -> l # r
      [] op = "lt" -> l < r
      [] op = "gt" -> l > r
      [] op = "le" -> l <= r
      [] op = "ge" -> l >= r

Smaller(x, y) == IF x < y THEN x ELSE y

LowestTerms(n, d) == \A k \in 2 .. Smaller(n, d) : ~(n % k = 0 /\ d % k = 0)

\* v1 / v2 truncated toward zero, stated without the division.
IsQuotient(qv, v1, v2) ==
    /\ Magnitude(qv) * Magnitude(v2) <= Magnitude(v1)
    /\ Magnitude(v1) < (Magnitude(qv) + 1) * Magnitude(v2)
    /\ qv # 0 => Sign(qv) = Sign(v1) * Sign(v2)

\* C1: add, subtract and the six comparisons on two quantities whose
\* dimension vectors differ are rejected and produce no result, whatever the
\* scales and values; and a conversion never changes the dimension.
C1_MixedDimensionRejected ==
    /\ (res.op \in {"add", "sub"} \cup Comparisons /\ res.x.dim # res.y.dim)
          => (res.status = "rejected" /\ res.q = NoUnit /\ res.flag = FALSE)
    /\ res.op \in {"convert", "convertBack"} => res.q.dim = res.x.dim

\* C1 witness: a meter plus a second, rejected.
C1_Witness ==
    /\ res.op = "add"
    /\ res.x.dim = Meter
    /\ res.y.dim = Second
    /\ res.status = "rejected"

C3_CrossScaleComparison ==
    (res.op \in Comparisons /\ res.x.dim = res.y.dim) =>
        LET n == res.x.num * res.y.den
            d == res.x.den * res.y.num
            g == RatioGcd(n, d)
        IN  /\ res.status = "ok"
            /\ res.flag = Holds(res.op, res.x.value * (n \div g),
                                        res.y.value * (d \div g))
            /\ res.flag = Holds(res.op, res.x.value * n, res.y.value * d)

\* C3 witness: 100 at scale 1000/1 compares equal to 100000 at scale 1/1.
C3_Witness ==
    /\ res.op = "eq"
    /\ res.x = Unit(MeterSecondGram, 1000, 1, 100)
    /\ res.y = Unit(MeterSecondGram, 1, 1, 100000)
    /\ res.status = "ok"
    /\ res.flag

\* C4 as claimed: a conversion to scale Num2/Den2 denotes the same amount,
\* c.value * Num2 * Den = v * Num * Den2, whenever that amount is an integer
\* at the target scale (stated with the division, which is exact there).
C4_ConversionPreservesAmount ==
    (/\ res.op = "convert"
     /\ (res.x.value * res.x.num * res.q.den) % (res.q.num * res.x.den) = 0)
        => /\ res.status = "ok"
           /\ res.q.dim = res.x.dim
           /\ res.q.value =
                (res.x.value * res.x.num * res.q.den) \div (res.q.num * res.x.den)

\* C5 as claimed, on the quantities whose amount is an integer at the other
\* scale (where a round trip through integers can be exact at all):
\* converting to the other scale and back yields a quantity of the original
\* type whose stored value is the original value.
C5_RoundTripExact ==
    (/\ res.op = "convertBack"
     /\ (res.x.value * res.x.num * res.y.den) % (res.y.num * res.x.den) = 0)
        => /\ TypeOf(res.q) = TypeOf(res.x)
           /\ res.q.value = res.x.value

\* C6: a product has the component-wise sum of the dimension vectors, the
\* scale (N1 * N2)/(D1 * D2) in lowest terms and the value v1 * v2; 5/7 times
\* 2/3 gives 10/21, and Distance times Time times Mass has Time = Distance =
\* Mass = 1.
C6_Multiply ==
    res.op = "mul" =>
        /\ res.status = "ok"
        /\ \A ax \in DOMAIN res.q.dim :
              res.q.dim[ax] = res.x.dim[ax] + res.y.dim[ax]
        /\ res.q.num * (res.x.den * res.y.den) = res.q.den * (res.x.num * res.y.num)
        /\ LowestTerms(res.q.num, res.q.den)
        /\ res.q.value = res.x.value * res.y.value
        /\ (res.x.num = 5 /\ res.x.den = 7 /\ res.y.num = 2 /\ res.y.den = 3)
              => (res.q.num = 10 /\ res.q.den = 21)
        /\ (res.x.dim = MeterSecond /\ res.y.dim = Gram)
              => res.q.dim = Dim(1, 1, 0, 0, 0, 0, 1)

\* C6 witness: 2 meters at scale 5/7 times -1 gram at scale 2/3.
C6_Witness ==
    /\ res.op = "mul"
    /\ res.x = Unit(Meter, 5, 7, 2)
    /\ res.y = Unit(Gram, 2, 3, -1)
    /\ res.q = Unit(Dim(0, 1, 0, 0, 0, 0, 1), 10, 21, -2)

C8_CompoundAssignment ==
    (/\ res.op \in {"mulAssign", "divAssign", "addAssign", "subAssign"}
     /\ res.op \in {"addAssign", "subAssign"} => TypeOf(res.y) = TypeOf(res.x)
     /\ res.op = "divAssign" => res.c # 0)
        => /\ res.status = "ok"
           /\ res.ref = "lhs"
           /\ TypeOf(a) = TypeOf(res.x)
           /\ a.value = CASE res.op = "mulAssign" -> res.x.value * res.c
                          [] res.op = "divAssign" -> TruncDiv(res.x.value, res.c)
                          [] res.op = "addAssign" -> res.x.value + res.y.value
                          [] res.op = "subAssign" -> res.x.value - res.y.value

\* C9 as claimed: for all signed m, n of the operand type, the most negative
\* value included, gcd(m, n) returns, is non-negative, and
\* gcd(gcd(m, n), 0) = gcd(m, n).
C9_GcdNonNegativeIdempotent ==
    /\ out.op = "gcd" => (out.ok /\ out.val >= 0)
    /\ out.op = "reduce" => (out.ok /\ out.val = out.prev)

\* C9 amended: for all signed m, n of the operand type other than its most
\* negative value (negative and zero operands and gcd(0, 0) = 0 included),
\* gcd(m, n) returns, is non-negative, and gcd(gcd(m, n), 0) = gcd(m, n),
\* whatever an overflow would do.
C9_GcdExceptMostNegative ==
    (gm # MinInt /\ gn # MinInt) =>
        /\ out.op = "gcd" => (out.ok /\ out.val >= 0)
        /\ out.op = "reduce" => (out.ok /\ out.val = out.prev)
        /\ (out.op = "gcd" /\ gm = 0 /\ gn = 0) => out.val = 0

\* C9 witness: gcd(-4, 6) = 2, and reduced once more it is 2.
C9_Witness ==
    /\ out.op = "reduce"
    /\ gm = -4
    /\ gn = 6
    /\ out.ok
    /\ out.prev = 2
    /\ out.val = 2

\* C10 as claimed, on the operands whose least common multiple the type
\* holds: lcm(m, n) returns, is 0 exactly when m = 0 or n = 0, and for
\* non-zero m, n is (|m| / gcd(m, n)) * |n|, so gcd(m, n) * lcm(m, n) = |m * n|.
C10_LcmZeroAndProduct ==
    LET g == RatioGcd(Magnitude(gm), Magnitude(gn))
        l == IF g = 0 THEN 0 ELSE (Magnitude(gm) \div g) * Magnitude(gn)
    IN  (out.op = "lcm" /\ l <= MaxInt) =>
            /\ out.ok
            /\ out.val = 0 <=> (gm = 0 \/ gn = 0)
            /\ (gm # 0 /\ gn # 0) =>
                  (out.val = l /\ g * out.val = Magnitude(gm * gn))

====
